---------------------------- MODULE Spec2Model ----------------------------
(***************************************************************************)
(* Model of src/app.py: the /process-audio request handler process_audio   *)
(* and its helper get_semitone_shift.                                      *)
(*                                                                         *)
(* One job is one run of process_audio.  The handler is sequential; every  *)
(* statement group that calls a collaborator (source fetch, SoundStat,     *)
(* librosa, soundfile, Supabase storage, basic-pitch, Supabase table) is   *)
(* one action whose outcome is chosen nondeterministically among what the  *)
(* collaborator can do (return, or raise).  The storage bucket and the     *)
(* metadata table outlive a job, so several jobs are run in sequence.      *)
(*                                                                         *)
(* Python values are tagged records [t, v]: t is "none", "str" or "num".   *)
(* Strings are tuples of one-character strings, so that split(" ")[0] is   *)
(* computed and not assumed.                                               *)
(*                                                                         *)
(* The storage accessor is written supabase.storage.from(...) in the       *)
(* source (lines 117-131); it is modelled as the bucket accessor it        *)
(* stands for.                                                             *)
(***************************************************************************)
EXTENDS Integers, Sequences, FiniteSets, TLC

VARIABLES
    pc,                   \* position of the handler in process_audio
    request,              \* request.json of the current job
    configured,           \* SOUNDSTAT_API_URL and SOUNDSTAT_API_KEY are both set
    silent,               \* the loaded samples were found to be digital silence
    tmpdir,               \* names of the files in the job's TemporaryDirectory
    contents,             \* what each audio file of the directory holds
    opened,               \* number of TemporaryDirectory() entered by this job
    closed,               \* number of TemporaryDirectory cleanups of this job
    detected_key,
    detected_tempo,
    y,                    \* loaded samples: the transforms applied to the source
    modified_y,
    processed_audio_url,
    midi_file_url,
    calls,                \* collaborator calls of this job, in order
    raised,               \* stage that ended the job with an error response ("" if none)
    caught,               \* stages whose exception was caught at the stage
    storage,              \* objects in the Supabase buckets (outlive the job)
    table,                \* update_data applied to the audio_files row
    outcome,              \* the JSON response of the job
    jobNo,
    keys,                 \* a pair of key strings given to get_semitone_shift
    shift                 \* what get_semitone_shift returned for them

vars == << pc, request, configured, silent, tmpdir, contents, opened, closed,
           detected_key, detected_tempo, y, modified_y, processed_audio_url,
           midi_file_url, calls, raised, caught, storage, table, outcome, jobNo,
           keys, shift >>

---------------------------------------------------------------------------
(* Bounds *)

MaxJobs == 2

---------------------------------------------------------------------------
(* Python values *)

None == [t |-> "none", v |-> <<>>]
Str(s) == [t |-> "str", v |-> s]
Num(n) == [t |-> "num", v |-> n]

\* Python truthiness: None, "" and 0 are falsy.
Truthy(x) ==
    CASE x.t = "none" -> FALSE
      [] x.t = "str"  -> Len(x.v) > 0
      [] x.t = "num"  -> x.v # 0

IsNone(x) == x.t = "none"

CMajor == <<"C", " ", "M", "a", "j", "o", "r">>
DMajor == <<"D", " ", "M", "a", "j", "o", "r">>
DbMinor == <<"D", "b", " ", "M", "i", "n", "o", "r">>
HMinor == <<"H", " ", "M", "i", "n", "o", "r">>

SourceUrl == <<"h", "t", "t", "p">>
UserId == <<"u", "1">>
AudioFileId == <<"a", "1">>

---------------------------------------------------------------------------
(* get_semitone_shift, lines 24-36 *)

KeyRoots ==
    { <<"C">>, <<"C", "#">>, <<"D", "b">>, <<"D">>, <<"D", "#">>, <<"E", "b">>,
      <<"E">>, <<"F">>, <<"F", "#">>, <<"G", "b">>, <<"G">>, <<"G", "#">>,
      <<"A", "b">>, <<"A">>, <<"A", "#">>, <<"B", "b">>, <<"B">> }

key_map(r) ==
    CASE r = <<"C">> -> 0
      [] r = <<"C", "#">> -> 1
      [] r = <<"D", "b">> -> 1
      [] r = <<"D">> -> 2
      [] r = <<"D", "#">> -> 3
      [] r = <<"E", "b">> -> 3
      [] r = <<"E">> -> 4
      [] r = <<"F">> -> 5
      [] r = <<"F", "#">> -> 6
      [] r = <<"G", "b">> -> 6
      [] r = <<"G">> -> 7
      [] r = <<"G", "#">> -> 8
      [] r = <<"A", "b">> -> 8
      [] r = <<"A">> -> 9
      [] r = <<"A", "#">> -> 10
      [] r = <<"B", "b">> -> 10
      [] r = <<"B">> -> 11

\* s.split(" ")[0]: the characters before the first space.
RECURSIVE SplitFirst(_)
SplitFirst(s) ==
    IF s = <<>> THEN <<>>
    ELSE IF Head(s) = " " THEN <<>>
    ELSE <<Head(s)>> \o SplitFirst(Tail(s))

\* Variant: the distance is normalised to the shortest rotation, -6..5.
get_semitone_shift_shortest(current_key, target_key) ==
    LET current_root == SplitFirst(current_key)
        target_root == SplitFirst(target_key)
    IN  IF current_root \in KeyRoots /\ target_root \in KeyRoots
        THEN ((key_map(target_root) - key_map(current_root) + 6) % 12) - 6
        ELSE 0

get_semitone_shift(current_key, target_key) ==
    LET current_root == SplitFirst(current_key)
        target_root == SplitFirst(target_key)
    IN  IF current_root \in KeyRoots /\ target_root \in KeyRoots
        THEN key_map(target_root) - key_map(current_root)
        ELSE 0


---------------------------------------------------------------------------
(* Inputs of a job *)

RequiredValues(s) == { None, Str(<<>>), Str(s) }

DesiredKeys == { None, Str(DMajor), Str(CMajor), Str(HMinor) }
DesiredTempos == { None, Num(100), Num(150) }

\* request.json: no JSON object at all, or a dict of the five fields read.
Requests ==
    { None } \cup
    { [t |-> "dict",
       v |-> [audio_file_url |-> u, user_id |-> o, audio_file_id |-> j,
              desired_key |-> k, desired_tempo |-> b]] :
        u \in RequiredValues(SourceUrl), o \in RequiredValues(UserId),
        j \in RequiredValues(AudioFileId), k \in DesiredKeys, b \in DesiredTempos }

\* Values the analysis service may put under "key" and "tempo".
AnalysisKeys == { None, Str(CMajor), Str(DbMinor), Num(5) }
AnalysisTempos == { None, Num(0), Num(100), Str(<<"1", "0", "0">>) }

\* The response shape of section 6: key is a string or null, tempo a number
\* or null.
WellTyped(k, b) == k.t \in {"none", "str"} /\ b.t \in {"none", "num"}

---------------------------------------------------------------------------
(* Responses, lines 49, 152-159, 161-166 *)

NoResponse == [code |-> 0, status |-> "", message |-> ""]

MissingParameters ==
    [code |-> 400, status |-> "error", message |-> "Missing required parameters"]

\* Variant: the general except clause answers without a message.
ErrorResponseNoMessage(exc) ==
    IF exc = "RequestException"
    THEN [code |-> 500, status |-> "error", message |-> "External service error"]
    ELSE [code |-> 500, status |-> "error"]

\* The two except clauses of the handler.
ErrorResponse(exc) ==
    IF exc = "RequestException"
    THEN [code |-> 500, status |-> "error", message |-> "External service error"]
    ELSE [code |-> 500, status |-> "error", message |-> "An unexpected error occurred"]

\* Variant: the transcription URL is left out of the response.
SuccessResponseNoMidi(dk, dt, p, m) ==
    [code |-> 200, status |-> "success",
     message |-> "Audio processed successfully",
     detected_key |-> dk, detected_tempo |-> dt,
     processed_audio_url |-> p, midi_file_url |-> None]

SuccessResponse(dk, dt, p, m) ==
    [code |-> 200, status |-> "success",
     message |-> "Audio processed successfully",
     detected_key |-> dk, detected_tempo |-> dt,
     processed_audio_url |-> p, midi_file_url |-> m]

---------------------------------------------------------------------------
(* Workspace: with tempfile.TemporaryDirectory() as tmpdir, lines 52-56 *)

\* os.path.join(tmpdir, "input_audio.wav"), relative to tmpdir
local_audio_path == "input_audio.wav"

\* Variant: the transform is written over the downloaded file.
processed_audio_path_in_place == "input_audio.wav"

\* os.path.join(tmpdir, "processed_audio.wav"), relative to tmpdir
processed_audio_path == "processed_audio.wav"

\* The samples of the source recording, as a file holds them: no transform
\* applied.  A file written from a buffer holds the buffer's transforms.
SourceSamples == <<>>

\* Variant: only the downloaded file is removed, by hand.
CleanupInputOnly(files) == files \ {"input_audio.wav"}

\* TemporaryDirectory.__exit__ removes the directory and all it holds.
Cleanup(files) == {}

\* The contents of the files that are left of the directory.
Kept(files) == [f \in (DOMAIN contents) \cap files |-> contents[f]]

\* Leaving the with block, by return or by exception.
LeaveWith(files) ==
    /\ tmpdir' = Cleanup(files)
    /\ contents' = Kept(Cleanup(files))
    /\ closed' = closed + 1

\* An exception reaches the handler's except clauses.
Handler(stage, exc) ==
    /\ outcome' = ErrorResponse(exc)
    /\ raised' = stage
    /\ pc' = "done"

\* One collaborator call: what was called, how it ended, on what, with which
\* options.  An upload is logged with its bucket, its path and whether the
\* object was there before the call.
Call(op, result, arg, opts) ==
    [op |-> op, result |-> result, arg |-> arg, opts |-> opts]

---------------------------------------------------------------------------
(* Initial state *)

NoBuffer == [loaded |-> FALSE, ops |-> <<>>]

\* get_semitone_shift was not called
NoShift == [called |-> FALSE]

JobInit ==
    /\ pc = "idle"
    /\ request = None
    /\ configured \in BOOLEAN
    /\ silent = FALSE
    /\ tmpdir = {}
    /\ contents = <<>>
    /\ opened = 0
    /\ closed = 0
    /\ detected_key = None
    /\ detected_tempo = None
    /\ y = NoBuffer
    /\ modified_y = NoBuffer
    /\ processed_audio_url = None
    /\ midi_file_url = None
    /\ calls = <<>>
    /\ raised = ""
    /\ caught = {}
    /\ storage = {}
    /\ table = [status |-> "uploaded"]
    /\ outcome = NoResponse
    /\ jobNo = 1

Init ==
    /\ JobInit
    /\ keys = << <<>>, <<>> >>
    /\ shift = NoShift

pure == << keys, shift >>
env == << configured, silent, storage, table, jobNo, pure >>
analysis == << detected_key, detected_tempo >>
audio == << y, modified_y >>
urls == << processed_audio_url, midi_file_url >>
workspace == << tmpdir, contents, opened, closed >>

---------------------------------------------------------------------------
(* A POST /process-audio arrives, line 38-39 *)

Receive ==
    /\ pc = "idle"
    /\ request' \in Requests
    /\ pc' = "validate"
    /\ UNCHANGED << env, workspace, analysis, audio, urls, calls, raised, caught,
                    outcome >>

---------------------------------------------------------------------------
(* Lines 41-49 *)

\* Variant: audio_file_id is left out of the check.
RequiredPresentNoId(d) == Truthy(d.audio_file_url) /\ Truthy(d.user_id)

\* all([audio_file_url, user_id, audio_file_id])
RequiredPresent(d) ==
    Truthy(d.audio_file_url) /\ Truthy(d.user_id) /\ Truthy(d.audio_file_id)

Validate ==
    /\ pc = "validate"
    /\ IF request.t = "none"
       THEN \* data.get on None raises AttributeError
            /\ Handler("request", "Exception")
       ELSE IF ~RequiredPresent(request.v)
       THEN /\ outcome' = MissingParameters
            /\ pc' = "done"
            /\ raised' = "validation"
       ELSE /\ pc' = "mktemp"
            /\ UNCHANGED << outcome, raised >>
    /\ UNCHANGED << request, env, workspace, analysis, audio, urls, calls, caught >>

---------------------------------------------------------------------------
(* Lines 52-56 *)

OpenWorkspace ==
    /\ pc = "mktemp"
    /\ \E ok \in BOOLEAN :
        IF ok
        THEN /\ tmpdir' = {"midi_output"}
             /\ contents' = <<>>
             /\ opened' = opened + 1
             /\ pc' = "download"
             /\ UNCHANGED << closed, outcome, raised >>
        ELSE \* TemporaryDirectory() raises OSError: nothing was created
             /\ Handler("mktemp", "Exception")
             /\ UNCHANGED workspace
    /\ UNCHANGED << request, env, analysis, audio, urls, calls, caught >>

---------------------------------------------------------------------------
(* Lines 58-63: download *)

DownloadResults == { "ok", "unreachable", "http_error", "stream_error", "io_error" }

\* Variant: response.raise_for_status() is not called.
DownloadExceptionNoStatusCheck(r) ==
    CASE r = "ok" -> ""
      [] r = "unreachable" -> "RequestException"
      [] r = "http_error" -> ""
      [] r = "stream_error" -> "RequestException"
      [] r = "io_error" -> "Exception"

\* The exception class a download result raises ("" when none):
\* requests.get and iter_content raise RequestException subclasses,
\* raise_for_status raises HTTPError, open/write raise OSError.
DownloadException(r) ==
    CASE r = "ok" -> ""
      [] r = "unreachable" -> "RequestException"
      [] r = "http_error" -> "RequestException"
      [] r = "stream_error" -> "RequestException"
      [] r = "io_error" -> "Exception"

\* Files in the workspace when the download statement group is left.
DownloadFiles(r, files) ==
    IF r \in {"ok", "stream_error"} THEN files \cup {local_audio_path} ELSE files

Download ==
    /\ pc = "download"
    /\ \E r \in DownloadResults :
        /\ calls' = Append(calls, Call("source_fetch", r, request.v.audio_file_url.v, {"stream"}))
        /\ IF DownloadException(r) = ""
           THEN /\ tmpdir' = DownloadFiles(r, tmpdir)
                /\ contents' = (local_audio_path :> SourceSamples) @@ contents
                /\ pc' = "analyze"
                /\ UNCHANGED << opened, closed, outcome, raised >>
           ELSE /\ LeaveWith(DownloadFiles(r, tmpdir))
                /\ Handler("download", DownloadException(r))
                /\ UNCHANGED opened
    /\ UNCHANGED << request, env, analysis, audio, urls, caught >>

---------------------------------------------------------------------------
(* Lines 65-88: key and tempo from the analysis service *)

AnalysisResults == { "ok", "unreachable", "http_error", "bad_json", "not_object" }

\* Every failure of the block is caught by one of the two except clauses of
\* lines 85-88: requests.post raises, raise_for_status raises, json() raises,
\* the decoded value has no get.
AnalysisCaught(r) == r # "ok"

Analyze ==
    /\ pc = "analyze"
    /\ IF ~configured
       THEN UNCHANGED << analysis, calls, caught >>
       ELSE \E r \in AnalysisResults :
            IF AnalysisCaught(r)
            THEN /\ calls' = Append(calls, Call("analysis", r, local_audio_path, {}))
                 /\ caught' = caught \cup {"analysis"}
                 /\ UNCHANGED analysis
            ELSE \E k \in AnalysisKeys, b \in AnalysisTempos :
                 /\ detected_key' = k
                 /\ detected_tempo' = b
                 /\ calls' = Append(calls,
                        Call("analysis", IF WellTyped(k, b) THEN "ok" ELSE "wrong_types",
                             local_audio_path, {}))
                 /\ UNCHANGED caught
    /\ pc' = "load"
    /\ UNCHANGED << request, env, workspace, audio, urls, raised, outcome >>

---------------------------------------------------------------------------
(* Lines 90-94: librosa.load *)

Load ==
    /\ pc = "load"
    /\ \E ok \in BOOLEAN :
        /\ calls' = Append(calls,
              Call("audio_load", IF ok THEN "ok" ELSE "error", local_audio_path, {}))
        /\ IF ok
           THEN /\ y' = [loaded |-> TRUE, ops |-> contents[local_audio_path]]
                /\ modified_y' = [loaded |-> TRUE, ops |-> contents[local_audio_path]]
                /\ pc' = "pitch"
                /\ UNCHANGED << workspace, outcome, raised >>
           ELSE /\ LeaveWith(tmpdir)
                /\ Handler("audio_load", "Exception")
                /\ UNCHANGED << opened, audio >>
    /\ UNCHANGED << request, env, analysis, urls, caught >>

---------------------------------------------------------------------------
(* Lines 96-101: pitch shift *)

\* if desired_key and detected_key
PitchRequested(desired, detected) == Truthy(desired) /\ Truthy(detected)

PitchShift ==
    /\ pc = "pitch"
    /\ LET desired_key == request.v.desired_key IN
       IF ~PitchRequested(desired_key, detected_key)
       THEN /\ pc' = "stretch"
            /\ UNCHANGED << workspace, audio, calls, outcome, raised >>
       ELSE IF detected_key.t # "str" \/ desired_key.t # "str"
       THEN \* .split on a value that is no string raises AttributeError
            /\ LeaveWith(tmpdir)
            /\ Handler("pitch_plan", "Exception")
            /\ UNCHANGED << opened, audio, calls >>
       ELSE LET semitone_shift == get_semitone_shift(detected_key.v, desired_key.v) IN
            IF semitone_shift = 0
            THEN /\ pc' = "stretch"
                 /\ UNCHANGED << workspace, audio, calls, outcome, raised >>
            ELSE \E ok \in BOOLEAN :
                 /\ calls' = Append(calls,
                        Call("pitch_shift", IF ok THEN "ok" ELSE "error",
                             modified_y.ops, {semitone_shift}))
                 /\ IF ok
                    THEN /\ modified_y' =
                              [modified_y EXCEPT !.ops = Append(@, <<"pitch_shift", semitone_shift>>)]
                         /\ pc' = "stretch"
                         /\ UNCHANGED << y, workspace, outcome, raised >>
                    ELSE /\ LeaveWith(tmpdir)
                         /\ Handler("pitch_shift", "Exception")
                         /\ UNCHANGED << opened, audio >>
    /\ UNCHANGED << request, env, analysis, urls, caught >>

---------------------------------------------------------------------------
(* Lines 103-108: time stretch *)

\* Variant: the detected tempo is tested with "is not None".
StretchRequestedNotNone(desired, detected) == Truthy(desired) /\ detected.t # "none"

\* if desired_tempo and detected_tempo
StretchRequested(desired, detected) == Truthy(desired) /\ Truthy(detected)

\* desired_tempo / detected_tempo, kept as the fraction <<numerator, denominator>>
TempoRatio(desired, detected) == << desired, detected >>

\* tempo_ratio != 1.0
RatioIsOne(r) == r[1] = r[2]

\* Variant: the stretch is given the loaded samples, y=y.
StretchInputOriginal(original, modified) == original

\* The buffer handed to time_stretch: y=modified_y
StretchInput(original, modified) == modified

TimeStretch ==
    /\ pc = "stretch"
    /\ LET desired_tempo == request.v.desired_tempo IN
       IF ~StretchRequested(desired_tempo, detected_tempo)
       THEN /\ pc' = "save"
            /\ UNCHANGED << workspace, audio, calls, outcome, raised >>
       ELSE IF detected_tempo.t # "num" \/ desired_tempo.t # "num"
       THEN \* dividing by or dividing a string raises TypeError
            /\ LeaveWith(tmpdir)
            /\ Handler("stretch_plan", "Exception")
            /\ UNCHANGED << opened, audio, calls >>
       ELSE LET tempo_ratio == TempoRatio(desired_tempo.v, detected_tempo.v) IN
            IF RatioIsOne(tempo_ratio)
            THEN /\ pc' = "save"
                 /\ UNCHANGED << workspace, audio, calls, outcome, raised >>
            ELSE \E ok \in BOOLEAN :
                 /\ calls' = Append(calls,
                        Call("time_stretch", IF ok THEN "ok" ELSE "error",
                             StretchInput(y, modified_y).ops, {tempo_ratio}))
                 /\ IF ok
                    THEN /\ modified_y' =
                              [modified_y EXCEPT !.ops =
                                  Append(StretchInput(y, modified_y).ops,
                                         <<"time_stretch", tempo_ratio>>)]
                         /\ pc' = "save"
                         /\ UNCHANGED << y, workspace, outcome, raised >>
                    ELSE /\ LeaveWith(tmpdir)
                         /\ Handler("time_stretch", "Exception")
                         /\ UNCHANGED << opened, audio >>
    /\ UNCHANGED << request, env, analysis, urls, caught >>

---------------------------------------------------------------------------
(* Supabase storage, as called on lines 114-118 and 128-131 *)

\* f"processed_audio/{user_id}/{audio_file_id}_processed.wav"
ProcessedPath(user_id, audio_file_id) ==
    <<"processed_audio", "/">> \o user_id \o <<"/">> \o audio_file_id \o <<"_processed.wav">>

\* f"midi_files/{user_id}/{audio_file_id}.mid"
MidiPath(user_id, audio_file_id) ==
    <<"midi_files", "/">> \o user_id \o <<"/">> \o audio_file_id \o <<".mid">>

get_public_url(bucket, path) == <<"public", "/", bucket, "/">> \o path

\* file_options of the two upload calls
ProcessedFileOptions == [contentType |-> "audio/wav"]
MidiFileOptions == [contentType |-> "audio/midi"]

\* The upload overwrites an existing object only when file_options asks for it.
Upsert(file_options) ==
    "upsert" \in DOMAIN file_options /\ file_options["upsert"] = "true"

\* What upload can do: it stores the object, fails for a reason of its own,
\* or refuses because the object exists and overwriting was not asked for.
UploadResults(objects, bucket, path, file_options) ==
    IF << bucket, path >> \in objects /\ ~Upsert(file_options)
    THEN { "duplicate", "error" }
    ELSE { "ok", "error" }

---------------------------------------------------------------------------
(* Lines 110-119: save and upload the processed audio *)

OnlyPitchShifted(b) == \A i \in DOMAIN b.ops : b.ops[i][1] = "pitch_shift"

\* Variant: the processed audio is saved whether or not it changed.
ArrayEqualNever(a, b, quiet) == FALSE

\* np.array_equal(y, modified_y): the arrays are equal when no transform ran,
\* and when the only transforms were pitch shifts (which keep the length) of
\* digital silence.
ArrayEqual(a, b, quiet) ==
    \/ Len(a.ops) = 0 /\ Len(b.ops) = 0
    \/ quiet /\ OnlyPitchShifted(a) /\ OnlyPitchShifted(b)

\* What the samples can be: transformed audio is compared with the source
\* only when a transform ran, and only then does silence of the source show.
SilenceChoices(b) == IF Len(b.ops) = 0 THEN {FALSE} ELSE BOOLEAN

SaveUpload ==
    /\ pc = "save"
    /\ \E quiet \in SilenceChoices(modified_y) :
       /\ silent' = quiet
       /\ IF ArrayEqual(y, modified_y, quiet)
          THEN /\ pc' = "midi"
               /\ UNCHANGED << workspace, urls, calls, storage, outcome, raised >>
          ELSE LET path == ProcessedPath(request.v.user_id.v, request.v.audio_file_id.v)
                   written == tmpdir \cup {processed_audio_path}
               IN  \/ \* sf.write raises
                      /\ calls' = Append(calls,
                             Call("audio_write", "error", processed_audio_path, {}))
                      /\ LeaveWith(written)
                      /\ Handler("audio_write", "Exception")
                      /\ UNCHANGED << opened, urls, storage >>
                   \/ \E r \in UploadResults(storage, "processed-audio", path,
                                             ProcessedFileOptions) :
                      /\ calls' = calls \o
                             << Call("audio_write", "ok", processed_audio_path, {}),
                                Call("upload", r,
                                     << "processed-audio", path,
                                        << "processed-audio", path >> \in storage >>,
                                     ProcessedFileOptions) >>
                      /\ IF r = "ok"
                         THEN /\ storage' = storage \cup { << "processed-audio", path >> }
                              /\ processed_audio_url' =
                                     Str(get_public_url("processed-audio", path))
                              /\ tmpdir' = written
                              /\ contents' =
                                     (processed_audio_path :> modified_y.ops) @@ contents
                              /\ pc' = "midi"
                              /\ UNCHANGED << opened, closed, midi_file_url, outcome, raised >>
                         ELSE /\ LeaveWith(written)
                              /\ Handler("upload_audio", "Exception")
                              /\ UNCHANGED << opened, urls, storage >>
    /\ UNCHANGED << request, configured, table, jobNo, pure, analysis, audio, caught >>

---------------------------------------------------------------------------
(* Lines 121-134: MIDI conversion and upload; every exception is caught *)

MidiFile == "midi_output/input_audio_basic_pitch.mid"

\* Variant: the URL is computed before the upload is tried.
MidiUrlBeforeUpload(r, url) == Str(url)

\* midi_file_url after an upload that ended with r: line 131 runs only when
\* line 130 returned.
MidiUrlAfter(r, url) == IF r = "ok" THEN Str(url) ELSE None

\* What predict_and_save_midi is given: the path and what the file holds.
MidiInput == << local_audio_path, contents[local_audio_path] >>

Midi ==
    /\ pc = "midi"
    /\ LET path == MidiPath(request.v.user_id.v, request.v.audio_file_id.v) IN
       \/ \* predict_and_save_midi raises
          /\ calls' = Append(calls, Call("predict_midi", "error", MidiInput, {}))
          /\ caught' = caught \cup {"midi_predict"}
          /\ UNCHANGED << tmpdir, urls, storage >>
       \/ \* it returns and wrote nothing: os.listdir(...)[0] raises IndexError
          /\ calls' = Append(calls, Call("predict_midi", "no_output", MidiInput, {}))
          /\ caught' = caught \cup {"midi_output"}
          /\ UNCHANGED << tmpdir, urls, storage >>
       \/ \E r \in UploadResults(storage, "midi-files", path, MidiFileOptions) :
          /\ calls' = calls \o
                 << Call("predict_midi", "ok", MidiInput, {}),
                    Call("upload", r,
                         << "midi-files", path, << "midi-files", path >> \in storage >>,
                         MidiFileOptions) >>
          /\ tmpdir' = tmpdir \cup {MidiFile}
          /\ midi_file_url' = MidiUrlAfter(r, get_public_url("midi-files", path))
          /\ UNCHANGED processed_audio_url
          /\ IF r = "ok"
             THEN /\ storage' = storage \cup { << "midi-files", path >> }
                  /\ UNCHANGED caught
             ELSE /\ caught' = caught \cup {"midi_upload"}
                  /\ UNCHANGED storage
    /\ pc' = "db"
    /\ UNCHANGED << request, configured, silent, table, jobNo, pure, contents,
                    opened, closed, analysis, audio, raised, outcome >>

---------------------------------------------------------------------------
(* Lines 136-150: the metadata record *)

\* Variant: the detected key is not written.
update_data_no_key(dk, dt, p, m) ==
    LET base == [status |-> IF Truthy(p) THEN "modified" ELSE "analyzed",
                 detected_key |-> None, detected_tempo |-> dt]
        withAudio == IF Truthy(p) THEN [processed_audio_url |-> p] @@ base ELSE base
    IN  IF Truthy(m) THEN [midi_file_url |-> m] @@ withAudio ELSE withAudio

\* Variant: the status is raised to "modified" by the transcription URL.
update_data_status_by_midi(dk, dt, p, m) ==
    LET base == [status |-> IF Truthy(m) THEN "modified" ELSE "analyzed",
                 detected_key |-> dk, detected_tempo |-> dt]
        withAudio == IF Truthy(p) THEN [processed_audio_url |-> p] @@ base ELSE base
    IN  IF Truthy(m) THEN [midi_file_url |-> m] @@ withAudio ELSE withAudio

update_data(dk, dt, p, m) ==
    LET base == [status |-> IF Truthy(p) THEN "modified" ELSE "analyzed",
                 detected_key |-> dk, detected_tempo |-> dt]
        withAudio == IF Truthy(p) THEN [processed_audio_url |-> p] @@ base ELSE base
    IN  IF Truthy(m) THEN [midi_file_url |-> m] @@ withAudio ELSE withAudio

UpdateDb ==
    /\ pc = "db"
    /\ LET data == update_data(detected_key, detected_tempo,
                               processed_audio_url, midi_file_url) IN
       \E ok \in BOOLEAN :
        /\ calls' = Append(calls,
               Call("db_update", IF ok THEN "ok" ELSE "error", data,
                    {request.v.audio_file_id.v}))
        /\ IF ok
           THEN /\ table' = data @@ table
                /\ pc' = "respond"
                /\ UNCHANGED << workspace, outcome, raised >>
           ELSE \* execute() or raise_for_status() raises
                /\ LeaveWith(tmpdir)
                /\ Handler("db_update", "Exception")
                /\ UNCHANGED << opened, table >>
    /\ UNCHANGED << request, configured, silent, storage, jobNo, pure, analysis,
                    audio, urls, caught >>

---------------------------------------------------------------------------
(* Lines 152-159: the success response; the with block is left by return *)

Return ==
    /\ pc = "respond"
    /\ outcome' = SuccessResponse(detected_key, detected_tempo,
                                  processed_audio_url, midi_file_url)
    /\ LeaveWith(tmpdir)
    /\ pc' = "done"
    /\ UNCHANGED << request, env, opened, analysis, audio, urls, calls, raised, caught >>

---------------------------------------------------------------------------
(* The next request is served by the same process and the same buckets *)

NextJob ==
    /\ pc = "done"
    /\ jobNo < MaxJobs
    /\ jobNo' = jobNo + 1
    /\ pc' = "idle"
    /\ request' = None
    /\ silent' = FALSE
    /\ tmpdir' = {}
    /\ contents' = <<>>
    /\ opened' = 0
    /\ closed' = 0
    /\ detected_key' = None
    /\ detected_tempo' = None
    /\ y' = NoBuffer
    /\ modified_y' = NoBuffer
    /\ processed_audio_url' = None
    /\ midi_file_url' = None
    /\ calls' = <<>>
    /\ raised' = ""
    /\ caught' = {}
    /\ outcome' = NoResponse
    /\ UNCHANGED << configured, storage, table, pure >>

Next ==
    \/ Receive
    \/ Validate
    \/ OpenWorkspace
    \/ Download
    \/ Analyze
    \/ Load
    \/ PitchShift
    \/ TimeStretch
    \/ SaveUpload
    \/ Midi
    \/ UpdateDb
    \/ Return
    \/ NextJob

Spec == Init /\ [][Next]_vars

\* Every collaborator call returns or raises, and the handler then runs on.
FairSpec == Spec /\ WF_vars(Next)

---------------------------------------------------------------------------
(* get_semitone_shift on its own: every pair of key strings built from a   *)
(* root, in the table or not, and a mode suffix                            *)

OtherRoots == { <<"H">>, <<"c">>, <<"C", "#", "m">>, <<>> }
ModeSuffixes ==
    { <<>>, <<" ", "M", "a", "j", "o", "r">>, <<" ", "M", "i", "n", "o", "r">> }
KeyInputs == { r \o m : r \in KeyRoots \cup OtherRoots, m \in ModeSuffixes }

KeyInit ==
    /\ JobInit
    /\ configured = FALSE
    /\ keys \in KeyInputs \X KeyInputs
    /\ shift = NoShift

\* The function is called on the pair, on the swapped pair and on the first
\* key with itself.
ShiftKeys ==
    /\ ~shift.called
    /\ shift' = [called |-> TRUE,
                 fwd |-> get_semitone_shift(keys[1], keys[2]),
                 rev |-> get_semitone_shift(keys[2], keys[1]),
                 same |-> get_semitone_shift(keys[1], keys[1])]
    /\ UNCHANGED << pc, request, workspace, analysis, audio, urls, calls, raised,
                    caught, outcome, configured, silent, storage, table, jobNo, keys >>

KeyNext == ShiftKeys

KeySpec == KeyInit /\ [][KeyNext]_vars

---------------------------------------------------------------------------
(* Vocabulary of the properties *)

Done == pc = "done"

CallIndexes(op) == { i \in DOMAIN calls : calls[i].op = op }
Called(op) == CallIndexes(op) # {}
Failed(op) == \E i \in CallIndexes(op) : calls[i].result # "ok"

\* A field of the request that is missing (null) or empty.
Blank(x) == x.t = "none" \/ (x.t = "str" /\ x.v = <<>>)

RequestLacksRequired ==
    \/ request.t = "none"
    \/ /\ request.t = "dict"
       /\ \/ Blank(request.v.audio_file_url)
          \/ Blank(request.v.user_id)
          \/ Blank(request.v.audio_file_id)

\* The response is a structured outcome: it has a status, and a failure
\* status comes with a non-empty message.
StructuredOutcome ==
    /\ "status" \in DOMAIN outcome
    /\ outcome.status \in {"success", "error"}
    /\ outcome.status = "error" =>
          "message" \in DOMAIN outcome /\ outcome.message # ""

---------------------------------------------------------------------------
(* C1: the workspace of a job is closed exactly once, and only when the    *)
(* handler returns: while the job runs the directory has not been closed,  *)
(* and in every terminal state, whichever stage raised, an opened          *)
(* directory has been closed once and holds no file.                       *)

C1_WorkspaceClosedOnce ==
    /\ opened \in {0, 1}
    /\ ~Done => closed = 0
    /\ Done => closed = opened /\ tmpdir = {}

C1_Witness ==
    /\ Done
    /\ raised = "db_update"
    /\ opened = 1
    /\ closed = 1
    /\ Called("upload")

---------------------------------------------------------------------------
(* C2: a request that lacks audio_file_url, user_id or audio_file_id ends  *)
(* at once with an error response, and no collaborator is called and no    *)
(* workspace is opened in that job.                                        *)

C2_MissingFieldsNoCalls ==
    (RequestLacksRequired /\ pc \notin {"idle", "validate"}) =>
        /\ Done
        /\ outcome.status = "error"
        /\ calls = <<>>
        /\ opened = 0

C2_Witness ==
    /\ Done
    /\ request.t = "dict"
    /\ ~Blank(request.v.audio_file_url)
    /\ ~Blank(request.v.user_id)
    /\ request.v.audio_file_id = Str(<<>>)
    /\ outcome = MissingParameters

---------------------------------------------------------------------------
(* C3: when the source download fails, the job is over with an error       *)
(* response, the download is the only collaborator call of the job, and    *)
(* the workspace holds no file.                                            *)

C3_DownloadFailureIsFatal ==
    Failed("source_fetch") =>
        /\ Done
        /\ outcome.status = "error"
        /\ Len(calls) = 1
        /\ tmpdir = {}
        /\ closed = 1

C3_Witness ==
    /\ Done
    /\ Len(calls) = 1
    /\ calls[1].op = "source_fetch"
    /\ calls[1].result = "http_error"
    /\ outcome.status = "error"

---------------------------------------------------------------------------
(* C4: when the analysis service is unconfigured, unreachable, or answers  *)
(* with an error or a malformed response, the detected key and tempo are   *)
(* both absent and the job, unless another stage fails, goes on through    *)
(* transcription and the metadata update to a response that is no error.   *)

AnalysisUnavailable == ~configured \/ Failed("analysis")

OnlyAnalysisFailed ==
    \A i \in DOMAIN calls : calls[i].op # "analysis" => calls[i].result = "ok"

C4_AnalysisFailureTolerated ==
    (Done /\ Called("audio_load") /\ AnalysisUnavailable /\ OnlyAnalysisFailed) =>
        /\ IsNone(detected_key)
        /\ IsNone(detected_tempo)
        /\ outcome.status # "error"
        /\ Called("predict_midi")
        /\ Called("db_update")

---------------------------------------------------------------------------
(* C5: when pitch shift or time stretch fails, transcription still runs    *)
(* in the same job and the job does not end with an error response.        *)

DspFailed == Failed("pitch_shift") \/ Failed("time_stretch")

C5_DspFailureSparesTranscription ==
    (Done /\ DspFailed) =>
        /\ Called("predict_midi")
        /\ outcome.status # "error"

---------------------------------------------------------------------------
(* C6: when transcription fails after the processed audio was uploaded,    *)
(* the job ends with the processed-audio URL in the response and in the    *)
(* metadata record, and without a transcription URL.                       *)

ProcessedPublished ==
    \E i \in CallIndexes("upload") :
        calls[i].arg[1] = "processed-audio" /\ calls[i].result = "ok"

TranscriptionFailed == caught \cap {"midi_predict", "midi_output", "midi_upload"} # {}

C6_TranscriptionFailureKeepsAudio ==
    (Done /\ ProcessedPublished /\ TranscriptionFailed) =>
        /\ outcome.status = "success"
        /\ outcome.processed_audio_url = processed_audio_url
        /\ Truthy(outcome.processed_audio_url)
        /\ IsNone(outcome.midi_file_url)
        /\ "processed_audio_url" \in DOMAIN table
        /\ table.processed_audio_url = processed_audio_url

---------------------------------------------------------------------------
(* C7: every job ends in exactly one of success, partial and failed;       *)
(* failed only when the request was invalid or the source could not be     *)
(* obtained, and partial whenever transform, transcription or publication  *)
(* failed, so that such a job is never reported as a success.              *)

RequestedWorkFailed ==
    \/ DspFailed
    \/ Failed("audio_write")
    \/ Failed("upload")
    \/ Failed("predict_midi")
    \/ Failed("db_update")

C7_TerminalStatus ==
    Done =>
        /\ outcome.status \in {"success", "partial", "error"}
        /\ outcome.status = "error" =>
              raised \in {"request", "validation", "mktemp", "download", "audio_load"}
        /\ RequestedWorkFailed => outcome.status = "partial"

---------------------------------------------------------------------------
(* C8: when an artifact was uploaded and a later upload or the metadata    *)
(* update fails, the status of the response is partial and the response    *)
(* carries the URL of the uploaded artifact.                               *)

LaterFailureAfterUpload ==
    \E i \in CallIndexes("upload") :
        /\ calls[i].result = "ok"
        /\ \E j \in DOMAIN calls :
              /\ j > i
              /\ calls[j].op \in {"upload", "db_update"}
              /\ calls[j].result # "ok"

C8_PartialAfterPublication ==
    (Done /\ LaterFailureAfterUpload) =>
        /\ outcome.status = "partial"
        /\ "processed_audio_url" \in DOMAIN outcome
        /\ "midi_file_url" \in DOMAIN outcome
        /\ Truthy(processed_audio_url) => outcome.processed_audio_url = processed_audio_url
        /\ Truthy(midi_file_url) => outcome.midi_file_url = midi_file_url

---------------------------------------------------------------------------
(* C9: when a job is run again and the object of the first run exists,    *)
(* the upload is issued with overwrite enabled and is not refused because  *)
(* of the stale object.                                                    *)

C9_UploadsOverwrite ==
    \A i \in CallIndexes("upload") :
        calls[i].arg[3] =>
            /\ Upsert(calls[i].opts)
            /\ calls[i].result # "duplicate"

---------------------------------------------------------------------------
(* C10: every request eventually gets a response; a response always has a  *)
(* status, and an error status always comes with a message.                *)

C10_AlwaysAnOutcome ==
    /\ (pc = "validate") ~> (Done /\ StructuredOutcome)
    /\ [](Done => StructuredOutcome)

C10_Witness ==
    /\ Done
    /\ raised = "time_stretch"
    /\ outcome.status = "error"
    /\ outcome.message = "An unexpected error occurred"

---------------------------------------------------------------------------
(* Vocabulary of the properties of the transform *)

\* The chromatic table of the specification: the pitch classes in order,
\* each with its spellings.
ChromaticScale ==
    << { <<"C">> }, { <<"C", "#">>, <<"D", "b">> }, { <<"D">> },
       { <<"D", "#">>, <<"E", "b">> }, { <<"E">> }, { <<"F">> },
       { <<"F", "#">>, <<"G", "b">> }, { <<"G">> }, { <<"G", "#">>, <<"A", "b">> },
       { <<"A">> }, { <<"A", "#">>, <<"B", "b">> }, { <<"B">> } >>

Recognized(root) == \E i \in DOMAIN ChromaticScale : root \in ChromaticScale[i]
PitchClass(root) == (CHOOSE i \in DOMAIN ChromaticScale : root \in ChromaticScale[i]) - 1

\* The leading token of a key string, up to the first space.
RootOf(k) ==
    LET spaces == { i \in DOMAIN k : k[i] = " " } IN
    IF spaces = {} THEN k
    ELSE SubSeq(k, 1, (CHOOSE i \in spaces : \A j \in spaces : i <= j) - 1)

\* The semitone shift the specification plans from a detected to a desired key.
PlannedShift(from, to) ==
    IF Recognized(RootOf(from)) /\ Recognized(RootOf(to))
    THEN PitchClass(RootOf(to)) - PitchClass(RootOf(from))
    ELSE 0

\* A value that is absent: null, the empty string, or zero.
NoValue(x) == Blank(x) \/ (x.t = "num" /\ x.v = 0)

SameValue(a, b) == a.t = b.t /\ a.v = b.v

PitchIsIdentity ==
    \/ NoValue(request.v.desired_key)
    \/ NoValue(detected_key)
    \/ /\ request.v.desired_key.t = "str"
       /\ detected_key.t = "str"
       /\ PlannedShift(detected_key.v, request.v.desired_key.v) = 0

TempoIsIdentity ==
    \/ NoValue(request.v.desired_tempo)
    \/ NoValue(detected_tempo)
    \/ /\ request.v.desired_tempo.t = "num"
       /\ detected_tempo.t = "num"
       /\ request.v.desired_tempo.v = detected_tempo.v

UploadsTo(bucket) ==
    { i \in CallIndexes("upload") : calls[i].arg[1] = bucket }

\* The public URL of the object that upload i stored.
UrlOf(i) == Str(<<"public", "/", calls[i].arg[1], "/">> \o calls[i].arg[2])

---------------------------------------------------------------------------
(* C11: when the planned transform is the identity (no desired or no       *)
(* detected key or a zero shift, and no desired or no detected tempo or    *)
(* equal tempos), no processed-audio file is written, no processed-audio   *)
(* upload is issued, and no processed-audio URL is in the response or in   *)
(* the metadata update.                                                    *)

---------------------------------------------------------------------------
(* C12: when download, analysis, a pitch shift or tempo stretch,           *)
(* transcription, the upload of the processed audio, the upload of the     *)
(* transcription and the metadata update have all succeeded, the job ends  *)
(* with status success and both URLs in the response.                      *)

NothingFailed ==
    /\ raised = ""
    /\ caught = {}
    /\ \A i \in DOMAIN calls : calls[i].result = "ok"

TransformRan == Called("pitch_shift") \/ Called("time_stretch")

BothUploadsSucceeded ==
    /\ \E i \in UploadsTo("processed-audio") : calls[i].result = "ok"
    /\ \E i \in UploadsTo("midi-files") : calls[i].result = "ok"

C12_AllSucceedBothUrls ==
    ( /\ Done
      /\ NothingFailed
      /\ Called("source_fetch") /\ Called("analysis") /\ TransformRan
      /\ Called("predict_midi") /\ BothUploadsSucceeded /\ Called("db_update") ) =>
        /\ outcome.status = "success"
        /\ outcome.code = 200
        /\ Truthy(outcome.processed_audio_url)
        /\ Truthy(outcome.midi_file_url)

C12_Witness ==
    /\ Done
    /\ NothingFailed
    /\ Called("source_fetch") /\ Called("analysis") /\ Called("predict_midi")
    /\ Called("pitch_shift")
    /\ Called("time_stretch")
    /\ BothUploadsSucceeded
    /\ Called("db_update")
    /\ outcome.status = "success"

---------------------------------------------------------------------------
(* C13: the tempo stretch is never invoked before the pitch shift, and     *)
(* when a pitch shift ran the stretch is given its output, not the loaded  *)
(* samples; the pitch shift is given the loaded samples.                   *)

C13_PitchThenStretch ==
    /\ \A i \in CallIndexes("pitch_shift") : calls[i].arg = SourceSamples
    /\ \A j \in CallIndexes("time_stretch") :
          /\ \A i \in CallIndexes("pitch_shift") : i < j
          /\ Len(calls[j].arg) = Cardinality(CallIndexes("pitch_shift"))
          /\ \A k \in DOMAIN calls[j].arg : calls[j].arg[k][1] = "pitch_shift"

C13_Witness ==
    /\ Done
    /\ outcome.status = "success"
    /\ Called("pitch_shift")
    /\ Called("time_stretch")
    /\ Len(modified_y.ops) = 2
    /\ modified_y.ops[1][1] = "pitch_shift"
    /\ modified_y.ops[2][1] = "time_stretch"

---------------------------------------------------------------------------
(* C14: note extraction is always given the downloaded file, and that file *)
(* holds the source samples: the transform is written to another path.     *)

C14_TranscribesTheSource ==
    /\ \A i \in CallIndexes("predict_midi") :
          /\ calls[i].arg[1] = "input_audio.wav"
          /\ calls[i].arg[2] = SourceSamples
    /\ \A i \in CallIndexes("audio_write") : calls[i].arg # "input_audio.wav"
    /\ "input_audio.wav" \in DOMAIN contents =>
          contents["input_audio.wav"] = SourceSamples

C14_Witness ==
    /\ pc = "db"
    /\ Called("predict_midi")
    /\ \E i \in CallIndexes("audio_write") : calls[i].result = "ok"
    /\ "processed_audio.wav" \in DOMAIN contents
    /\ Len(contents["processed_audio.wav"]) = 2

---------------------------------------------------------------------------
(* C15: for two keys with recognized roots, with or without a mode suffix  *)
(* and in either spelling, the shift is the pitch class of the target      *)
(* minus that of the current key, lies in -11..11, is the negative of the  *)
(* shift in the other direction, and is 0 from a key to itself.            *)

C15_ShiftIsSignedDistance ==
    (shift.called /\ Recognized(RootOf(keys[1])) /\ Recognized(RootOf(keys[2]))) =>
        /\ shift.fwd = PitchClass(RootOf(keys[2])) - PitchClass(RootOf(keys[1]))
        /\ shift.fwd \in -11 .. 11
        /\ shift.fwd = -shift.rev
        /\ shift.same = 0

C15_Witness ==
    /\ shift.called
    /\ keys[1] = <<"B", "b", " ", "M", "i", "n", "o", "r">>
    /\ keys[2] = <<"C", "#">>
    /\ shift.fwd = -9
    /\ shift.rev = 9

---------------------------------------------------------------------------
(* C16: for a pair of keys with a root that is not in the table, the       *)
(* function returns 0 and the result is marked as unrecognized: it differs *)
(* from what two recognized identical roots return.                        *)

RealZeroShift == get_semitone_shift(<<"C">>, <<"C">>)

C16_UnrecognizedIsMarked ==
    (shift.called /\ ~(Recognized(RootOf(keys[1])) /\ Recognized(RootOf(keys[2])))) =>
        /\ shift.fwd = 0
        /\ shift.fwd # RealZeroShift

---------------------------------------------------------------------------
(* C17: the tempo stretch is invoked only when the desired and the         *)
(* detected tempo are both present, the detected tempo is not zero and the *)
(* two differ; when the detected tempo is missing or zero, or equals the   *)
(* desired tempo, there is no stretch and the stretch stage raises nothing.*)

TempoUsable ==
    /\ request.t = "dict"
    /\ request.v.desired_tempo.t = "num" /\ request.v.desired_tempo.v # 0
    /\ detected_tempo.t = "num" /\ detected_tempo.v # 0
    /\ request.v.desired_tempo.v # detected_tempo.v

NoTempoToStretch ==
    /\ request.t = "dict"
    /\ \/ NoValue(detected_tempo)
       \/ SameValue(request.v.desired_tempo, detected_tempo)

C17_StretchOnlyWhenComputable ==
    /\ Called("time_stretch") => TempoUsable
    /\ NoTempoToStretch =>
          /\ ~Called("time_stretch")
          /\ raised \notin {"stretch_plan", "time_stretch"}

C17_Witness ==
    /\ Done
    /\ outcome.status = "success"
    /\ request.v.desired_tempo = Num(150)
    /\ detected_tempo = Num(0)
    /\ Called("audio_load")
    /\ ~Called("time_stretch")

---------------------------------------------------------------------------
(* C18: a processed-audio or transcription URL in a metadata update or in  *)
(* a response is the URL of an object whose upload succeeded earlier in    *)
(* the same job.                                                           *)

UploadedBefore(j, bucket, url) ==
    \E i \in UploadsTo(bucket) :
        /\ i < j
        /\ calls[i].result = "ok"
        /\ SameValue(url, UrlOf(i))

C18_UrlsAreUploaded ==
    /\ \A j \in CallIndexes("db_update") :
          /\ "processed_audio_url" \in DOMAIN calls[j].arg =>
                UploadedBefore(j, "processed-audio", calls[j].arg.processed_audio_url)
          /\ "midi_file_url" \in DOMAIN calls[j].arg =>
                UploadedBefore(j, "midi-files", calls[j].arg.midi_file_url)
    /\ outcome.status = "success" =>
          /\ ~IsNone(outcome.processed_audio_url) =>
                UploadedBefore(Len(calls) + 1, "processed-audio",
                               outcome.processed_audio_url)
          /\ ~IsNone(outcome.midi_file_url) =>
                UploadedBefore(Len(calls) + 1, "midi-files", outcome.midi_file_url)

C18_Witness ==
    /\ Done
    /\ outcome.status = "success"
    /\ Truthy(outcome.processed_audio_url)
    /\ IsNone(outcome.midi_file_url)
    /\ \E i \in UploadsTo("midi-files") : calls[i].result # "ok"
    /\ \E j \in CallIndexes("db_update") :
          "processed_audio_url" \in DOMAIN calls[j].arg

---------------------------------------------------------------------------
(* C19: a job that ends with status success issued exactly one metadata    *)
(* update, the update succeeded, and the key, tempo and URLs of the        *)
(* response are those of the update; a job that ends with an error raised  *)
(* before the metadata stage issued no metadata update.                    *)

Written(data, field) == IF field \in DOMAIN data THEN data[field] ELSE None

C19_SuccessAfterOneUpdate ==
    /\ (Done /\ outcome.status = "success") =>
          /\ Cardinality(CallIndexes("db_update")) = 1
          /\ \A j \in CallIndexes("db_update") :
                /\ calls[j].result = "ok"
                /\ SameValue(outcome.detected_key, Written(calls[j].arg, "detected_key"))
                /\ SameValue(outcome.detected_tempo,
                             Written(calls[j].arg, "detected_tempo"))
                /\ SameValue(outcome.processed_audio_url,
                             Written(calls[j].arg, "processed_audio_url"))
                /\ SameValue(outcome.midi_file_url,
                             Written(calls[j].arg, "midi_file_url"))
    /\ (Done /\ outcome.status = "error" /\ raised # "db_update") =>
          ~Called("db_update")

C19_Witness ==
    /\ Done
    /\ outcome.status = "success"
    /\ outcome.detected_key = Str(CMajor)
    /\ outcome.detected_tempo = Num(100)
    /\ Truthy(outcome.processed_audio_url)
    /\ Truthy(outcome.midi_file_url)
    /\ \E j \in CallIndexes("db_update") : calls[j].result = "ok"

---------------------------------------------------------------------------
(* C20: the status written by a metadata update is "modified" exactly when *)
(* the update carries a processed-audio URL, and "analyzed" otherwise,     *)
(* whatever the analysis and the transcription produced.                   *)

C20_StatusFollowsProcessedUrl ==
    \A j \in CallIndexes("db_update") :
        /\ calls[j].arg.status \in {"modified", "analyzed"}
        /\ calls[j].arg.status = "modified" <=>
              "processed_audio_url" \in DOMAIN calls[j].arg
        /\ "processed_audio_url" \in DOMAIN calls[j].arg <=>
              \E i \in UploadsTo("processed-audio") : calls[i].result = "ok"

C20_Witness ==
    /\ Done
    /\ \E j \in CallIndexes("db_update") :
          /\ calls[j].arg.status = "analyzed"
          /\ "midi_file_url" \in DOMAIN calls[j].arg
          /\ "processed_audio_url" \notin DOMAIN calls[j].arg

===========================================================================
